---------------------------- MODULE Spec2Model ----------------------------
(***************************************************************************)
(* The request handlers of backend/server.js (src/server.js): six POST     *)
(* endpoints relaying prompts to a generative-AI provider.                 *)
(*                                                                         *)
(* A handler is an async function.  It runs without interruption from its  *)
(* start to its first await, and from the settlement of an awaited promise *)
(* to the next await or to its end (JavaScript's run-to-completion), so    *)
(* each such stretch is one action.  The suspension points are the         *)
(* provider calls (model.generateContent, with the reading of the          *)
(* response text that follows it) and the audio endpoint's setTimeout.     *)
(* Several requests are in flight at once; their stretches interleave.     *)
(***************************************************************************)
EXTENDS Naturals, Sequences, FiniteSets

\* Number of requests in flight together (request ids are arrival numbers).
NumReq == 2

Req == 1..NumReq

(***************************************************************************)
(* JavaScript values of the JSON payload fields: an absent field reads as  *)
(* undefined; the others are strings.                                      *)
(***************************************************************************)
Undef == [t |-> "undefined", s |-> ""]
Str(s) == [t |-> "string", s |-> s]

\* The operand test of `!v` / `v || d`: undefined and "" are falsy.
MissingOnlyUndefined(v) == v.t = "undefined"
Missing(v) == v.t = "undefined" \/ (v.t = "string" /\ v.s = "")

\* A value interpolated into a template literal `${v}`.
ToStr(v) == IF v.t = "undefined" THEN "undefined" ELSE v.s

(***************************************************************************)
(* String.prototype.trim on a text given as a sequence of characters.      *)
(***************************************************************************)
WhiteSpace == {" ", "\n", "\t"}

RECURSIVE TrimStart(_)
TrimStart(s) ==
    IF s # <<>> /\ Head(s) \in WhiteSpace THEN TrimStart(Tail(s)) ELSE s

RECURSIVE TrimEnd(_)
TrimEnd(s) ==
    IF s # <<>> /\ s[Len(s)] \in WhiteSpace
    THEN TrimEnd(SubSeq(s, 1, Len(s) - 1)) ELSE s

Trim(s) == TrimEnd(TrimStart(s))

(***************************************************************************)
(* Process-wide constants.                                                 *)
(***************************************************************************)
TEXT_MODEL_NAME == "gemini-1.5-flash"
VISION_MODEL_NAME == "gemini-1.5-flash-001"
AudioDelayMs == 2500

(***************************************************************************)
(* Payloads the clients send (req.body), per endpoint: the complete ones,  *)
(* and for each field the ones where it is absent or empty.                *)
(***************************************************************************)
Absent == {Undef, Str("")}

TranslateBodies ==
    [text : {Str("Hello")}, fromLang : {Str("English")}, toLang : {Str("French")}]
    \cup [text : Absent, fromLang : {Str("English")}, toLang : {Str("French")}]
    \cup [text : {Str("Hello")}, fromLang : Absent, toLang : {Str("French")}]
    \cup [text : {Str("Hello")}, fromLang : {Str("English")}, toLang : Absent]

SummaryTypes ==
    {Str("brief"), Str("detailed"), Str("bullets"), Str("key"), Str("haiku")}

SummarizeBodies ==
    [text : {Str("Long text")}, summaryType : SummaryTypes]
    \cup [text : Absent, summaryType : {Str("key")}]
    \cup [text : {Str("Long text")}, summaryType : Absent]
    \cup [text : {Undef}, summaryType : {Undef}]

ImageBodies ==
    [imageData : {Str("aGVsbG8=")}, imageMimeType : {Undef, Str(""), Str("image/png")}]
    \cup [imageData : Absent, imageMimeType : {Str("image/png")}]

AudioBodies == [audioData : {Undef, Str("UklGRg==")}]

ResumeSummaryBodies ==
    { [existingSummary |-> Str("Built APIs"), role |-> Str("Engineer"),
       experienceLevel |-> Str("senior")],
      [existingSummary |-> Undef, role |-> Undef, experienceLevel |-> Undef] }

SkillsBodies ==
    { [currentSkills |-> Str("js, sql"), jobDescriptionKeywords |-> Str("cloud")],
      [currentSkills |-> Undef, jobDescriptionKeywords |-> Undef] }

(***************************************************************************)
(* What a provider call comes to: the text of the response, or an error    *)
(* raised by generateContent or by response.text().                        *)
(***************************************************************************)
RawTexts == { <<" ", "a", " ", "b", "\n">>, <<"c">> }
ErrorMessages == {"429 Too Many Requests"}

Returned(raw) == [ok |-> TRUE, text |-> raw, message |-> ""]
Raised(m) == [ok |-> FALSE, text |-> <<>>, message |-> m]
Outcomes == {Returned(raw) : raw \in RawTexts} \cup {Raised(m) : m \in ErrorMessages}

VARIABLES
    pc,       \* pc[r]: where request r's handler stands
    op,       \* op[r]: the route of request r
    body,     \* body[r]: req.body
    local,    \* local[r]: the handler's variables that live across an await
    timer,    \* timer[r]: the setTimeout of the audio handler
    calls,    \* calls[r]: the generation requests r dispatched to the provider
    results,  \* results[r]: what those calls came to, in order
    sent      \* sent[r]: the responses written to res

vars == <<pc, op, body, local, timer, calls, results, sent>>

NoBody == [none |-> Undef]
NoLocal == [summary |-> <<>>]
NoTimer == [state |-> "none", ms |-> 0]

Init ==
    /\ pc = [r \in Req |-> "idle"]
    /\ op = [r \in Req |-> "none"]
    /\ body = [r \in Req |-> NoBody]
    /\ local = [r \in Req |-> NoLocal]
    /\ timer = [r \in Req |-> NoTimer]
    /\ calls = [r \in Req |-> <<>>]
    /\ results = [r \in Req |-> <<>>]
    /\ sent = [r \in Req |-> <<>>]

(***************************************************************************)
(* Responses.                                                              *)
(***************************************************************************)
\* res.json(b): status 200.
Ok(b) == [status |-> 200, body |-> b]

\* res.status(400).json({ error }).
Rejected(msg) == [status |-> 400, body |-> [error |-> msg]]

\* The catch blocks: res.status(500).json({ error, details: error.message }).
FailureWithoutDetails(msg, err) == [status |-> 500, body |-> [error |-> msg]]
Failure(msg, err) ==
    [status |-> 500, body |-> [error |-> msg, details |-> err.message]]

\* The responses on res after one more is written.
SendDropped(r, resp) == sent[r]
Send(r, resp) == Append(sent[r], resp)

\* An awaited provider call throws into the handler's catch block.
NeverThrows(out) == FALSE
Throws(out) == ~out.ok

(***************************************************************************)
(* A request arrives: requests are numbered in the order of arrival.       *)
(***************************************************************************)
Arrives(r) ==
    /\ pc[r] = "idle"
    /\ \A q \in Req : q < r => pc[q] # "idle"

\* model.generateContent(...) is called; the handler suspends on it.
Dispatch(r, o, b, gen) ==
    /\ pc' = [pc EXCEPT ![r] = "await1"]
    /\ op' = [op EXCEPT ![r] = o]
    /\ body' = [body EXCEPT ![r] = b]
    /\ calls' = [calls EXCEPT ![r] = Append(@, gen)]
    /\ UNCHANGED <<local, timer, results, sent>>

\* The validation fails: 400, and the handler returns.
Reject(r, o, b, msg) ==
    /\ pc' = [pc EXCEPT ![r] = "done"]
    /\ op' = [op EXCEPT ![r] = o]
    /\ body' = [body EXCEPT ![r] = b]
    /\ sent' = [sent EXCEPT ![r] = Send(r, Rejected(msg))]
    /\ UNCHANGED <<local, timer, calls, results>>

\* The awaited call of a one-call handler settles: respond, or catch.
Settle(r, out, okBody, failMsg) ==
    /\ results' = [results EXCEPT ![r] = Append(@, out)]
    /\ pc' = [pc EXCEPT ![r] = "done"]
    /\ sent' = [sent EXCEPT ![r] =
                  Send(r, IF Throws(out) THEN Failure(failMsg, out) ELSE Ok(okBody))]
    /\ UNCHANGED <<op, body, local, timer, calls>>

\* A text-only generation request.
TextRequest(prompt) == [model |-> TEXT_MODEL_NAME, prompt |-> prompt, parts |-> <<>>]

(***************************************************************************)
(* 1. POST /api/translate                                                  *)
(***************************************************************************)
TranslatePrompt(b) ==
    "Translate the following text from " \o ToStr(b.fromLang) \o " to "
    \o ToStr(b.toLang)
    \o ". Only provide the translated text, nothing else.\nText: \""
    \o ToStr(b.text) \o "\""

Translate(r, b) ==
    /\ Arrives(r)
    /\ IF Missing(b.text) \/ Missing(b.fromLang) \/ Missing(b.toLang)
       THEN Reject(r, "translate", b, "Missing text, fromLang, or toLang in request.")
       ELSE Dispatch(r, "translate", b, TextRequest(TranslatePrompt(b)))

TranslateResume(r, out) ==
    /\ pc[r] = "await1" /\ op[r] = "translate"
    /\ Settle(r, out, [translatedText |-> Trim(out.text)],
              "Failed to translate text. Please check your API key and input.")

(***************************************************************************)
(* 2. POST /api/summarize                                                  *)
(***************************************************************************)
\* The switch on summaryType (strict equality with the four case labels).
SummaryPrompt(b) ==
    CASE b.summaryType = Str("brief") ->
           "Provide a very brief, 1-2 sentence summary of the following text. Only the summary.\nText: \""
           \o ToStr(b.text) \o "\""
      [] b.summaryType = Str("detailed") ->
           "Provide a detailed, 3-5 sentence summary of the following text. Only the summary.\nText: \""
           \o ToStr(b.text) \o "\""
      [] b.summaryType = Str("bullets") ->
           "Summarize the following text into 3-5 key bullet points. Only the bullet points.\nText: \""
           \o ToStr(b.text) \o "\""
      [] b.summaryType = Str("key") ->
           "Extract the absolute 3-5 most important key points from the following text as a numbered list. Only the numbered list.\nText: \""
           \o ToStr(b.text) \o "\""
      [] OTHER ->
           "Summarize the following text. Only the summary.\nText: \""
           \o ToStr(b.text) \o "\""

KeyPointsPrompt(b) ==
    "Extract 3-5 key takeaways from the following text as bullet points:\n\""
    \o ToStr(b.text) \o "\""

\* summaryType === 'bullets' || summaryType === 'key'
ReusesSummaryBulletsOnly(summaryType) == summaryType = Str("bullets")
ReusesSummaryAlsoBrief(summaryType) ==
    summaryType \in {Str("bullets"), Str("key"), Str("brief")}
ReusesSummary(summaryType) == summaryType \in {Str("bullets"), Str("key")}

\* `const summary` of the handler invocation serving r.
SummaryOfLatest(r) ==
    LET S == {q \in Req : op[q] = "summarize" /\ local[q].summary # <<>>}
    IN  IF S = {} THEN local[r].summary
        ELSE local[CHOOSE q \in S : \A p \in S : p <= q].summary
SummaryOf(r) == local[r].summary

SummarizeFailMsg == "Failed to summarize text. Please check your API key and input."

Summarize(r, b) ==
    /\ Arrives(r)
    /\ IF Missing(b.text) \/ Missing(b.summaryType)
       THEN Reject(r, "summarize", b, "Missing text or summaryType in request.")
       ELSE Dispatch(r, "summarize", b, TextRequest(SummaryPrompt(b)))

\* The first call settles: catch, or respond with keyPoints = summary, or
\* dispatch the key-points call.
SummarizeResume(r, out) ==
    /\ pc[r] = "await1" /\ op[r] = "summarize"
    /\ results' = [results EXCEPT ![r] = Append(@, out)]
    /\ IF Throws(out)
       THEN /\ pc' = [pc EXCEPT ![r] = "done"]
            /\ sent' = [sent EXCEPT ![r] = Send(r, Failure(SummarizeFailMsg, out))]
            /\ UNCHANGED <<local, calls>>
       ELSE IF ReusesSummary(body[r].summaryType)
       THEN /\ pc' = [pc EXCEPT ![r] = "done"]
            /\ local' = [local EXCEPT ![r].summary = Trim(out.text)]
            /\ sent' = [sent EXCEPT ![r] =
                          Send(r, Ok([summary |-> Trim(out.text),
                                      keyPoints |-> Trim(out.text)]))]
            /\ UNCHANGED calls
       ELSE /\ pc' = [pc EXCEPT ![r] = "await2"]
            /\ local' = [local EXCEPT ![r].summary = Trim(out.text)]
            /\ calls' = [calls EXCEPT ![r] =
                           Append(@, TextRequest(KeyPointsPrompt(body[r])))]
            /\ UNCHANGED sent
    /\ UNCHANGED <<op, body, timer>>

\* The key-points call settles.
SummarizeKeyPointsResume(r, out) ==
    /\ pc[r] = "await2" /\ op[r] = "summarize"
    /\ results' = [results EXCEPT ![r] = Append(@, out)]
    /\ pc' = [pc EXCEPT ![r] = "done"]
    /\ sent' = [sent EXCEPT ![r] =
                  Send(r, IF Throws(out)
                          THEN Failure(SummarizeFailMsg, out)
                          ELSE Ok([summary |-> SummaryOf(r),
                                   keyPoints |-> Trim(out.text)]))]
    /\ UNCHANGED <<op, body, local, timer, calls>>

(***************************************************************************)
(* 3. POST /api/analyze-image                                              *)
(***************************************************************************)
\* req.body.imageMimeType || 'image/jpeg'
MimeTypeNoFallback(b) == ToStr(b.imageMimeType)
MimeType(b) ==
    IF Missing(b.imageMimeType) THEN "image/jpeg" ELSE b.imageMimeType.s

\* imageToGenerativePart
ImageToGenerativePart(base64String, mimeType) ==
    [data |-> base64String, mimeType |-> mimeType]

ImagePrompt ==
    "Describe this image in detail, including objects, actions, and overall context. Keep the description concise, 2-3 sentences."

ImageRequest(b) ==
    [model |-> VISION_MODEL_NAME, prompt |-> ImagePrompt,
     parts |-> <<ImageToGenerativePart(b.imageData.s, MimeType(b))>>]

AnalyzeImage(r, b) ==
    /\ Arrives(r)
    /\ IF Missing(b.imageData)
       THEN Reject(r, "analyze-image", b, "Missing image data in request.")
       ELSE Dispatch(r, "analyze-image", b, ImageRequest(b))

AnalyzeImageResume(r, out) ==
    /\ pc[r] = "await1" /\ op[r] = "analyze-image"
    /\ Settle(r, out, [description |-> Trim(out.text)],
              "Failed to analyze image. Please ensure your API key is correct and the image is valid.")

(***************************************************************************)
(* 4. POST /api/analyze-audio (a placeholder: no provider call)            *)
(***************************************************************************)
Transcription ==
    "This is a simulated transcription of your audio. For real transcription, consider using a dedicated Speech-to-Text API."
Emotion ==
    "Simulated emotion: Neutral, with hints of curiosity. (Real emotion analysis would be derived from the transcribed text using a language model)."

\* new Promise(resolve => setTimeout(resolve, 2500)): the timer is armed and
\* the handler suspends (a missing audioData is only logged).
AnalyzeAudio(r, b) ==
    /\ Arrives(r)
    /\ pc' = [pc EXCEPT ![r] = "delay"]
    /\ op' = [op EXCEPT ![r] = "analyze-audio"]
    /\ body' = [body EXCEPT ![r] = b]
    /\ timer' = [timer EXCEPT ![r] = [state |-> "armed", ms |-> AudioDelayMs]]
    /\ UNCHANGED <<local, calls, results, sent>>

\* The timer fires and resolves the promise.
AudioTimerFires(r) ==
    /\ timer[r].state = "armed"
    /\ timer' = [timer EXCEPT ![r].state = "fired"]
    /\ UNCHANGED <<pc, op, body, local, calls, results, sent>>

\* The awaited promise is resolved.
DelayNotAwaited(r) == timer[r].state \in {"armed", "fired"}
DelayElapsed(r) == timer[r].state = "fired"

AnalyzeAudioResume(r) ==
    /\ pc[r] = "delay" /\ op[r] = "analyze-audio"
    /\ DelayElapsed(r)
    /\ pc' = [pc EXCEPT ![r] = "done"]
    /\ sent' = [sent EXCEPT ![r] =
                  Send(r, Ok([transcription |-> Transcription, emotion |-> Emotion]))]
    /\ UNCHANGED <<op, body, local, timer, calls, results>>

(***************************************************************************)
(* 5. The resume endpoints (no validation)                                 *)
(***************************************************************************)
ResumeSummaryPrompt(b) ==
    "Generate a concise, impactful professional summary for a " \o ToStr(b.role)
    \o " with " \o ToStr(b.experienceLevel)
    \o " experience. Incorporate this existing information: \""
    \o ToStr(b.existingSummary)
    \o "\". Focus on achievements and relevant skills. Keep it to 3-5 sentences."

GenerateSummaryValidated(r, b) ==
    /\ Arrives(r)
    /\ IF Missing(b.role)
       THEN Reject(r, "generate-summary", b, "Missing role in request.")
       ELSE Dispatch(r, "generate-summary", b, TextRequest(ResumeSummaryPrompt(b)))
GenerateSummary(r, b) ==
    /\ Arrives(r)
    /\ Dispatch(r, "generate-summary", b, TextRequest(ResumeSummaryPrompt(b)))

GenerateSummaryResume(r, out) ==
    /\ pc[r] = "await1" /\ op[r] = "generate-summary"
    /\ Settle(r, out, [generatedSummary |-> Trim(out.text)],
              "Failed to generate summary. Please check your API key.")

SkillsPrompt(b) ==
    "Optimize the following skills for a resume, considering these job requirements/keywords: \""
    \o ToStr(b.jobDescriptionKeywords)
    \o "\". Suggest 5-10 strong, relevant skills based on \""
    \o ToStr(b.currentSkills)
    \o "\". Provide as a comma-separated list of skills."

OptimizeSkills(r, b) ==
    /\ Arrives(r)
    /\ Dispatch(r, "optimize-skills", b, TextRequest(SkillsPrompt(b)))

OptimizeSkillsResume(r, out) ==
    /\ pc[r] = "await1" /\ op[r] = "optimize-skills"
    /\ Settle(r, out, [optimizedSkills |-> Trim(out.text)],
              "Failed to optimize skills. Please check your API key.")

Next ==
    \/ \E r \in Req, b \in TranslateBodies : Translate(r, b)
    \/ \E r \in Req, out \in Outcomes : TranslateResume(r, out)
    \/ \E r \in Req, b \in SummarizeBodies : Summarize(r, b)
    \/ \E r \in Req, out \in Outcomes : SummarizeResume(r, out)
    \/ \E r \in Req, out \in Outcomes : SummarizeKeyPointsResume(r, out)
    \/ \E r \in Req, b \in ImageBodies : AnalyzeImage(r, b)
    \/ \E r \in Req, out \in Outcomes : AnalyzeImageResume(r, out)
    \/ \E r \in Req, b \in AudioBodies : AnalyzeAudio(r, b)
    \/ \E r \in Req : AudioTimerFires(r)
    \/ \E r \in Req : AnalyzeAudioResume(r)
    \/ \E r \in Req, b \in ResumeSummaryBodies : GenerateSummary(r, b)
    \/ \E r \in Req, out \in Outcomes : GenerateSummaryResume(r, out)
    \/ \E r \in Req, b \in SkillsBodies : OptimizeSkills(r, b)
    \/ \E r \in Req, out \in Outcomes : OptimizeSkillsResume(r, out)

Spec == Init /\ [][Next]_vars

(***************************************************************************)
(* Properties                                                              *)
(***************************************************************************)
Arrived(r) == op[r] # "none"
Response(r) == sent[r][1]
Summarizes(r) ==
    /\ op[r] = "summarize"
    /\ body[r].text \notin Absent /\ body[r].summaryType \notin Absent
AiBacked ==
    {"translate", "summarize", "analyze-image", "generate-summary", "optimize-skills"}

\* The fields each validating endpoint requires.
RequiredFields(o) ==
    CASE o = "translate" -> {"text", "fromLang", "toLang"}
      [] o = "summarize" -> {"text", "summaryType"}
      [] o = "analyze-image" -> {"imageData"}
      [] OTHER -> {}

\* C1: a request with a required field absent or empty is answered 400 with an
\* error message, and no generation request is dispatched for it.
C1_MissingFieldRejected ==
    \A r \in Req :
        (Arrived(r) /\ \E f \in RequiredFields(op[r]) : body[r][f] \in Absent)
        => /\ pc[r] = "done"
           /\ Len(sent[r]) = 1
           /\ Response(r).status = 400
           /\ DOMAIN Response(r).body = {"error"}
           /\ Response(r).body.error # ""
           /\ calls[r] = <<>>

C1_Witness ==
    /\ op[1] = "translate" /\ body[1].toLang = Str("") /\ body[1].text = Str("Hello")
    /\ op[2] = "summarize" /\ body[2].summaryType = Undef
    /\ pc[1] = "done" /\ pc[2] = "done"

\* C2: when a provider call of a request raises, the request is answered 500
\* with error and details, details being the raised message, and with no
\* success field; for summarize at the first call and at the second.
C2_ProviderFailureIs500 ==
    \A r \in Req :
        (\E i \in 1..Len(results[r]) : ~results[r][i].ok)
        => /\ op[r] \in AiBacked
           /\ pc[r] = "done"
           /\ Len(sent[r]) = 1
           /\ Response(r).status = 500
           /\ DOMAIN Response(r).body = {"error", "details"}
           /\ Response(r).body.error # ""
           /\ Response(r).body.details = results[r][Len(results[r])].message

C2_Witness ==
    /\ op[1] = "summarize" /\ Len(results[1]) = 2
    /\ results[1][1].ok /\ ~results[1][2].ok
    /\ op[2] = "generate-summary" /\ Len(results[2]) = 1 /\ ~results[2][1].ok

\* C3: a valid summarize request of type bullets or key makes one provider
\* call, and its success response has keyPoints equal to summary.
C3_BulletsAndKeyReuseSummary ==
    \A r \in Req :
        (Summarizes(r) /\ body[r].summaryType \in {Str("bullets"), Str("key")})
        => /\ Len(calls[r]) = 1
           /\ (Len(results[r]) = 1 /\ results[r][1].ok)
              => /\ pc[r] = "done"
                 /\ Response(r).status = 200
                 /\ DOMAIN Response(r).body = {"summary", "keyPoints"}
                 /\ Response(r).body.summary = Trim(results[r][1].text)
                 /\ Response(r).body.keyPoints = Response(r).body.summary

C3_Witness ==
    /\ Summarizes(1) /\ body[1].summaryType = Str("key")
    /\ Summarizes(2) /\ body[2].summaryType = Str("bullets")
    /\ pc[1] = "done" /\ results[1][1].ok
    /\ pc[2] = "done" /\ results[2][1].ok

SeparateKeyPoints(r) ==
    Summarizes(r) /\ body[r].summaryType \notin {Str("bullets"), Str("key")}

\* C4 as stated: a valid summarize request of type brief, detailed or an
\* unrecognized one makes exactly two provider calls.
C4_AlwaysTwoCalls ==
    \A r \in Req :
        (SeparateKeyPoints(r) /\ pc[r] = "done") => Len(calls[r]) = 2

\* C4 as amended: such a request makes exactly two provider calls when the
\* first succeeds (the first with the prompt its summaryType selects, giving
\* summary; the second with the key-takeaways prompt, giving keyPoints), and
\* exactly one when the first raises.
C4_TwoCallsUnlessFirstRaises ==
    \A r \in Req :
        (SeparateKeyPoints(r) /\ Len(results[r]) >= 1)
        => IF results[r][1].ok
           THEN /\ Len(calls[r]) = 2
                /\ calls[r][1].prompt = SummaryPrompt(body[r])
                /\ calls[r][2].prompt = KeyPointsPrompt(body[r])
                /\ calls[r][1].prompt # calls[r][2].prompt
                /\ (Len(results[r]) = 2 /\ results[r][2].ok)
                   => /\ Response(r).status = 200
                      /\ Response(r).body.summary = Trim(results[r][1].text)
                      /\ Response(r).body.keyPoints = Trim(results[r][2].text)
           ELSE /\ Len(calls[r]) = 1
                /\ pc[r] = "done"
                /\ Response(r).status = 500

C4_Witness ==
    /\ SeparateKeyPoints(1) /\ body[1].summaryType = Str("brief")
    /\ SeparateKeyPoints(2) /\ body[2].summaryType = Str("haiku")
    /\ pc[1] = "done" /\ Len(results[1]) = 2 /\ results[1][2].ok
    /\ Response(1).body.summary # Response(1).body.keyPoints
    /\ pc[2] = "done" /\ Len(calls[2]) = 1

\* C5: analyze-audio dispatches nothing to the provider, answers the fixed
\* transcription and emotion whatever audioData is, and answers only once
\* its delay timer (of AudioDelayMs) has fired.
C5_AudioIsFixedAndDelayed ==
    \A r \in Req :
        op[r] = "analyze-audio"
        => /\ calls[r] = <<>> /\ results[r] = <<>>
           /\ timer[r].state \in {"armed", "fired"} /\ timer[r].ms = AudioDelayMs
           /\ sent[r] # <<>>
              => /\ timer[r].state = "fired"
                 /\ sent[r] = <<[status |-> 200,
                                 body |-> [transcription |-> Transcription,
                                           emotion |-> Emotion]]>>

C5_Witness ==
    /\ op[1] = "analyze-audio" /\ body[1].audioData = Undef /\ pc[1] = "done"
    /\ op[2] = "analyze-audio" /\ body[2].audioData # Undef /\ pc[2] = "done"

\* C6 as stated: every answered request dispatched exactly one generation
\* request, which came to exactly one result, and got exactly one response.
C6_OneToOneChain ==
    \A r \in Req :
        pc[r] = "done"
        => Len(calls[r]) = 1 /\ Len(results[r]) = 1 /\ Len(sent[r]) = 1

\* The generation requests a finished handler has dispatched.
ExpectedCalls(r) ==
    IF op[r] = "analyze-audio" \/ \E f \in RequiredFields(op[r]) : body[r][f] \in Absent
    THEN 0
    ELSE IF SeparateKeyPoints(r) /\ results[r][1].ok THEN 2 ELSE 1

\* C6 as amended: every request gets exactly one response on every path
\* (none while a call or the delay is awaited, one from then on, never two),
\* every generation request comes to exactly one result, and a request
\* dispatches one generation request, except none on a validation failure and
\* for analyze-audio, and two on summarize's separate key-points path.
C6_OneResponsePerRequest ==
    \A r \in Req :
        /\ Len(sent[r]) = (IF pc[r] = "done" THEN 1 ELSE 0)
        /\ Len(calls[r]) =
             Len(results[r]) + (IF pc[r] \in {"await1", "await2"} THEN 1 ELSE 0)
        /\ pc[r] = "done" => Len(calls[r]) = ExpectedCalls(r)

C6_Witness ==
    /\ pc[1] = "done" /\ Len(calls[1]) = 2 /\ ~results[1][2].ok /\ Len(sent[1]) = 1
    /\ pc[2] = "done" /\ Len(calls[2]) = 0 /\ Response(2).status = 400

\* C7: nothing is retried: a call is dispatched only when every earlier call
\* of the request succeeded, a request dispatches at most one call (summarize
\* at most two), and after a failure no call is pending.
C7_NoRetry ==
    \A r \in Req :
        /\ Len(calls[r]) <= (IF op[r] = "summarize" THEN 2 ELSE 1)
        /\ \A i \in 1..Len(calls[r]) :
               i < Len(calls[r]) => (i <= Len(results[r]) /\ results[r][i].ok)
        /\ (\E i \in 1..Len(results[r]) : ~results[r][i].ok)
           => Len(calls[r]) = Len(results[r]) /\ pc[r] = "done"

C7_Witness ==
    /\ SeparateKeyPoints(1) /\ pc[1] = "done" /\ ~results[1][1].ok /\ Len(calls[1]) = 1
    /\ SeparateKeyPoints(2) /\ pc[2] = "await2" /\ results[2][1].ok

Resume == {"generate-summary", "optimize-skills"}
SuccessField(o) == IF o = "generate-summary" THEN "generatedSummary" ELSE "optimizedSkills"

\* C8: a resume endpoint dispatches exactly one provider call for every
\* payload, and answers the success envelope or 500 with error and details,
\* never 400.
C8_ResumeNeverRejects ==
    \A r \in Req :
        op[r] \in Resume
        => /\ Len(calls[r]) = 1
           /\ pc[r] \in {"await1", "done"}
           /\ pc[r] = "done"
              => /\ Len(sent[r]) = 1
                 /\ IF results[r][1].ok
                    THEN /\ Response(r).status = 200
                         /\ DOMAIN Response(r).body = {SuccessField(op[r])}
                         /\ Response(r).body[SuccessField(op[r])] = Trim(results[r][1].text)
                    ELSE /\ Response(r).status = 500
                         /\ DOMAIN Response(r).body = {"error", "details"}

C8_Witness ==
    /\ op[1] = "generate-summary" /\ body[1].role = Undef
    /\ body[1].existingSummary = Undef /\ body[1].experienceLevel = Undef
    /\ pc[1] = "done" /\ Response(1).status = 200
    /\ op[2] = "optimize-skills" /\ body[2].currentSkills = Undef
    /\ pc[2] = "done" /\ Response(2).status = 500

\* C9: every dispatched generation request has a non-empty prompt; it carries
\* an attachment exactly for analyze-image, which goes to the vision model
\* (everything else to the text model), and the attachment's media type is
\* non-empty: the client's imageMimeType if given non-empty, else image/jpeg.
C9_GenerationRequestWellFormed ==
    \A r \in Req : \A i \in 1..Len(calls[r]) :
        LET g == calls[r][i] IN
        /\ g.prompt # ""
        /\ IF op[r] = "analyze-image"
           THEN /\ g.model = "gemini-1.5-flash-001"
                /\ Len(g.parts) = 1
                /\ g.parts[1].data = body[r].imageData.s
                /\ g.parts[1].mimeType # ""
                /\ g.parts[1].mimeType =
                     (IF body[r].imageMimeType \in Absent THEN "image/jpeg"
                      ELSE body[r].imageMimeType.s)
           ELSE /\ g.model = "gemini-1.5-flash"
                /\ g.parts = <<>>

C9_Witness ==
    /\ op[1] = "analyze-image" /\ body[1].imageMimeType = Undef /\ Len(calls[1]) = 1
    /\ op[2] = "analyze-image" /\ body[2].imageMimeType = Str("image/png")
    /\ Len(calls[2]) = 1

\* The response of a request handled alone, from its payload and the results
\* of its own provider calls.
Alone(o, b, res) ==
    IF \E f \in RequiredFields(o) : b[f] \in Absent
    THEN [status |-> 400,
          body |-> [error |->
             CASE o = "translate" -> "Missing text, fromLang, or toLang in request."
               [] o = "summarize" -> "Missing text or summaryType in request."
               [] OTHER -> "Missing image data in request."]]
    ELSE IF o = "analyze-audio"
    THEN [status |-> 200,
          body |-> [transcription |-> Transcription, emotion |-> Emotion]]
    ELSE IF ~res[Len(res)].ok
    THEN [status |-> 500,
          body |-> [error |->
             CASE o = "translate" ->
                    "Failed to translate text. Please check your API key and input."
               [] o = "summarize" -> SummarizeFailMsg
               [] o = "analyze-image" ->
                    "Failed to analyze image. Please ensure your API key is correct and the image is valid."
               [] o = "generate-summary" ->
                    "Failed to generate summary. Please check your API key."
               [] OTHER -> "Failed to optimize skills. Please check your API key.",
             details |-> res[Len(res)].message]]
    ELSE [status |-> 200,
          body |->
             CASE o = "translate" -> [translatedText |-> Trim(res[1].text)]
               [] o = "summarize" ->
                    [summary |-> Trim(res[1].text),
                     keyPoints |-> Trim(res[Len(res)].text)]
               [] o = "analyze-image" -> [description |-> Trim(res[1].text)]
               [] o = "generate-summary" -> [generatedSummary |-> Trim(res[1].text)]
               [] OTHER -> [optimizedSkills |-> Trim(res[1].text)]]

\* A step is a step of one request: the others' state is left as it was.
OneRequestSteps ==
    \E r \in Req : \A q \in Req \ {r} :
        /\ pc'[q] = pc[q] /\ op'[q] = op[q] /\ body'[q] = body[q]
        /\ local'[q] = local[q] /\ timer'[q] = timer[q]
        /\ calls'[q] = calls[q] /\ results'[q] = results[q] /\ sent'[q] = sent[q]

\* C10: under every interleaving, the response of a request is the one it
\* would get alone, a function of its own payload and of the results of its
\* own provider calls, and no step of a handler touches another request.
C10_Independent ==
    /\ [](\A r \in Req :
             pc[r] = "done" => sent[r] = <<Alone(op[r], body[r], results[r])>>)
    /\ [][OneRequestSteps]_vars

\* Request 2 arrived after request 1 and was answered while 1 was suspended.
C10_Witness ==
    /\ SeparateKeyPoints(1) /\ pc[1] = "await2"
    /\ SeparateKeyPoints(2) /\ pc[2] = "done" /\ Len(results[2]) = 2
    /\ results[2][2].ok
    /\ local[1].summary # local[2].summary

=============================================================================
